---- MODULE Spec2Model ----
(***************************************************************************)
(* Model of the scan-and-remediate front end: the Home page controller     *)
(* (url / attestation / scan / assistant chat state and its three async    *)
(* handlers), the HTTP helper apiPost, the unmounted ChatPanel component,  *)
(* and the presentational FindingCard / StatusBadge mapping.               *)
(*                                                                         *)
(* Texts are sequences of one-character strings so that trim(), URL        *)
(* parsing and toLowerCase() are computed, not assumed.  A nullable        *)
(* value is a sequence of length 0 (null) or 1 (the value).                *)
(***************************************************************************)
EXTENDS Integers, Sequences, FiniteSets, TLC

VARIABLES url, scan, loading, err, attest,       \* Home: scan state
          sessionId, messages, draft, sending,   \* Home: chat state
          net,        \* the requests in flight, oldest first
          sessions,   \* the backend's transcript of each session it created
          panel,      \* ChatPanel's own state and the onSend calls it made
          last,       \* the handler or callback that ran last, and the place
                      \* in net of the request it issued or settled
          failed      \* whether some /llm/message request has failed so far

home == <<url, scan, loading, err, attest, sessionId, messages, draft, sending>>
vars == <<url, scan, loading, err, attest, sessionId, messages, draft, sending,
          net, sessions, panel, last, failed>>

Null == <<>>
Some(x) == <<x>>

-----------------------------------------------------------------------------
(* Bounds of the model. *)

\* requests in flight at the same time
MaxInFlight == 2
\* sessions the backend creates
MaxSessions == 1
\* entries of a transcript, on the page or in the backend
MaxThread == 6
\* number of optimistic entries the unmounted ChatPanel may accumulate
MaxPanel == 1

\* findings of a Scan in the rendering model
MaxFindings == 4

-----------------------------------------------------------------------------
(* Text helpers. *)

Space == " "

\* String.prototype.toLowerCase on the letters that occur in the inputs
LowerChar(c) ==
  CASE c = "E" -> "e" [] c = "X" -> "x" [] c = "A" -> "a" [] c = "M" -> "m"
    [] c = "P" -> "p" [] c = "L" -> "l" [] c = "C" -> "c" [] c = "O" -> "o"
    [] c = "H" -> "h" [] c = "T" -> "t" [] c = "S" -> "s" [] c = "W" -> "w"
    [] OTHER -> c

toLowerCase(s) == [i \in 1..Len(s) |-> LowerChar(s[i])]

RECURSIVE TrimStart(_)
TrimStart(s) ==
  IF s # <<>> /\ Head(s) = Space THEN TrimStart(Tail(s)) ELSE s

RECURSIVE TrimEnd(_)
TrimEnd(s) ==
  IF s # <<>> /\ s[Len(s)] = Space THEN TrimEnd(SubSeq(s, 1, Len(s) - 1)) ELSE s

\* String.prototype.trim
trim(s) == TrimEnd(TrimStart(s))

\* index of the first element of s that lies in the set cs, 0 when there is none
FirstIn(s, cs) ==
  IF \E i \in 1..Len(s) : s[i] \in cs
    THEN CHOOSE i \in 1..Len(s) : s[i] \in cs /\ \A j \in 1..(i - 1) : s[j] \notin cs
    ELSE 0

RECURSIVE SkipSlashes(_)
SkipSlashes(s) ==
  IF s # <<>> /\ Head(s) = "/" THEN SkipSlashes(Tail(s)) ELSE s

-----------------------------------------------------------------------------
(* new URL(u).host, for absolute URL texts without userinfo or IPv6.       *)

Letters == {"a","c","e","f","h","i","l","m","o","p","s","t","w","x","y",
            "A","C","E","H","L","M","O","P","S","T","W","X"}

\* after its first letter a scheme may hold letters, digits, "+", "-" and "."
SchemeChars == Letters \cup {"0","1","2","3","4","5","6","7","8","9","+","-","."}

SpecialPorts(scheme) ==
  CASE scheme = <<"h","t","t","p">> -> Some(<<"8","0">>)
    [] scheme = <<"h","t","t","p","s">> -> Some(<<"4","4","3">>)
    [] OTHER -> Null

IsSpecial(scheme) == SpecialPorts(scheme) # Null

\* the authority part: up to the first "/", "?" or "#"
Authority(s) ==
  LET stop == FirstIn(s, {"/", "?", "#"})
  IN  IF stop = 0 THEN s ELSE SubSeq(s, 1, stop - 1)

\* URL.host of an authority: Null when the host parser fails; the host of a
\* special scheme is lower-cased, the scheme's default port and an empty port dropped
HostPort(scheme, auth) ==
  LET colon == FirstIn(auth, {":"})
      hostRaw == IF colon = 0 THEN auth ELSE SubSeq(auth, 1, colon - 1)
      port == IF colon = 0 THEN <<>> ELSE SubSeq(auth, colon + 1, Len(auth))
      host == IF IsSpecial(scheme) THEN toLowerCase(hostRaw) ELSE hostRaw
  IN  IF colon = 1 \/ (IsSpecial(scheme) /\ auth = <<>>)
        THEN Null
        ELSE IF port = <<>> \/ Some(port) = SpecialPorts(scheme)
               THEN Some(host)
               ELSE Some(host \o <<":">> \o port)

\* new URL(u).host: Null when the constructor throws, else Some(host)
UrlHost(u) ==
  LET s == trim(u)
      colon == FirstIn(s, {":"})
  IN  IF \/ colon <= 1
         \/ s[1] \notin Letters
         \/ \E i \in 1..(colon - 1) : s[i] \notin SchemeChars
        THEN Null
        ELSE LET scheme == toLowerCase(SubSeq(s, 1, colon - 1))
                 rest == SubSeq(s, colon + 1, Len(s))
             IN  IF IsSpecial(scheme)
                   THEN HostPort(scheme, Authority(SkipSlashes(rest)))
                   ELSE IF Len(rest) >= 2 /\ SubSeq(rest, 1, 2) = <<"/", "/">>
                          THEN HostPort(scheme, Authority(SubSeq(rest, 3, Len(rest))))
                          ELSE Some(<<>>)

ExampleCom == <<"e","x","a","m","p","l","e",".","c","o","m">>
WwwExampleCom == <<"w","w","w",".">> \o ExampleCom

DEMO_HOSTS == {ExampleCom, WwwExampleCom}

\* hostFromUrl without its own toLowerCase(): the host as the URL parser left it
hostFromUrl_CaseKept(u) ==
  LET h == UrlHost(u)
  IN  IF h = Null THEN <<>> ELSE h[1]

\* try { return new URL(u).host.toLowerCase(); } catch { return ""; }
hostFromUrl(u) ==
  LET h == UrlHost(u)
  IN  IF h = Null THEN <<>> ELSE toLowerCase(h[1])

\* canScan that takes any parseable host for a demo host
canScanOf_AnyHost(u, a) == hostFromUrl(u) # <<>> \/ a

canScanOf(u, a) == hostFromUrl(u) \in DEMO_HOSTS \/ a

canScan == canScanOf(url, attest)

-----------------------------------------------------------------------------
(* Inputs: the texts a user can type, the bodies the backend can return.   *)

Https == <<"h","t","t","p","s",":">>
SlashSlash == <<"/", "/">>
MySiteIo == <<"m","y","s","i","t","e",".","i","o">>

\* useState("https://example.com")
InitialUrl == Https \o SlashSlash \o ExampleCom

\* URL texts typed in the page model
UrlTexts == { InitialUrl, Https \o SlashSlash \o MySiteIo }

\* chat drafts typed in the page model: empty, blank, and a text to trim
DraftTexts == { <<>>, <<Space>>, <<Space, "a", Space>> }

\* URL texts typed in the gate model, put together from their parts
UrlPads == { <<>>, <<Space>> }
UrlSchemes == { <<>>, Https, <<"H","T","T","P",":">>, <<"f","o","o",":">> }
UrlSlashes == { <<>>, SlashSlash }
UrlHosts == { <<>>, ExampleCom, MySiteIo,
              <<"W","W","W",".","E","x","a","m","p","l","e",".","C","O","M">> }
UrlPorts == { <<>>, <<":","4","4","3">>, <<":","8","0","8","0">> }
UrlPaths == { <<>>, <<"/","x">> }

UrlParts == [pad : UrlPads, scheme : UrlSchemes, slashes : UrlSlashes,
             host : UrlHosts, port : UrlPorts, path : UrlPaths]

Compose(p) == p.pad \o p.scheme \o p.slashes \o p.host \o p.port \o p.path

GateUrlTexts == { Compose(p) : p \in UrlParts }

\* chat texts typed into ChatPanel
PanelTexts == { <<>>, <<Space>>, <<"a", Space>> }

AttestPrompt == <<"Please attest you own or are authorized to test this domain.">>

Model == "gpt-4o-mini"

F1 == [id |-> "f1", key |-> "hsts", title |-> "HSTS missing", status |-> "FAIL",
       risk |-> "high", confidence |-> "high",
       evidence |-> [header |-> "absent"], recommendation |-> "Add HSTS"]
F2 == [id |-> "f2", key |-> "csp", title |-> "CSP weak", status |-> "WARN",
       risk |-> "medium", confidence |-> "low",
       evidence |-> [policy |-> "unsafe-inline"], recommendation |-> "Tighten CSP"]

\* the Scan the backend answers POST /scan {url: u} with
ScanResult(u) ==
  IF u = InitialUrl
    THEN [id |-> "scan-a", url |-> u, score |-> 72, findings |-> <<>>]
    ELSE [id |-> "scan-b", url |-> u, score |-> 40, findings |-> <<F2, F1>>]

SessionIds == <<"sess-1", "sess-2", "sess-3", "sess-4", "sess-5", "sess-6">>

UserMsg(text) == [role |-> "user", content |-> text]

InitialTranscript ==
  << [role |-> "system", content |-> <<"sys">>],
     [role |-> "assistant", content |-> <<"first">>] >>

-----------------------------------------------------------------------------
(* HTTP helper.                                                            *)

Request(path, body) == [path |-> path, body |-> body, resp |-> Null]

HttpResponse(status, json) == [kind |-> "http", status |-> status, json |-> json]
NetworkFailure == [kind |-> "neterr", status |-> 0, json |-> Null]

\* Response.ok
ResOk(resp) == resp.status \in 200..299

Resolved(v) == [ok |-> TRUE, value |-> v, error |-> Null]
Rejected(e) == [ok |-> FALSE, value |-> Null, error |-> e]

\* a response whose body is not JSON text
HttpTextResponse(status) == [kind |-> "text", status |-> status, json |-> Null]

\* res.json(): the decoded body, or the decoder's SyntaxError
ResJson(resp) ==
  IF resp.kind = "text"
    THEN Rejected([message |-> Some(<<"Unexpected token">>)])
    ELSE Resolved(resp.json)

\* apiPost whose error leaves the status code out
apiPost_NoStatus(path, resp) ==
  IF resp.kind = "neterr"
    THEN Rejected([message |-> Some(<<"Failed to fetch">>)])
    ELSE IF ~ResOk(resp)
           THEN Rejected([message |-> Some(<<"POST ", path, " failed">>)])
           ELSE ResJson(resp)

\* the settled promise of apiPost(path, body) once fetch has settled with resp
apiPost(path, resp) ==
  IF resp.kind = "neterr"
    THEN Rejected([message |-> Some(<<"Failed to fetch">>)])
    ELSE IF ~ResOk(resp)
           THEN Rejected([message |-> Some(<<"POST ", path, " failed: ", ToString(resp.status)>>)])
           ELSE ResJson(resp)

\* the settled promise of apiGet(path) once fetch has settled with resp
apiGet(path, resp) ==
  IF resp.kind = "neterr"
    THEN Rejected([message |-> Some(<<"Failed to fetch">>)])
    ELSE IF ~ResOk(resp)
           THEN Rejected([message |-> Some(<<"GET ", path, " failed: ", ToString(resp.status)>>)])
           ELSE ResJson(resp)

\* e?.message ?? fallback
MessageOr(e, fallback) == IF e.message = Null THEN fallback ELSE e.message[1]

-----------------------------------------------------------------------------
(* State after the first render of Home; ChatPanel is not mounted.         *)

Init ==
  /\ url = InitialUrl
  /\ scan = Null
  /\ loading = FALSE
  /\ err = Null
  /\ attest = FALSE
  /\ sessionId = Null
  /\ messages = Null
  /\ draft = <<>>
  /\ sending = FALSE
  /\ net = <<>>
  /\ sessions = <<>>
  /\ panel = [messages |-> <<>>, text |-> <<>>, sent |-> <<>>]
  /\ last = [op |-> "init", req |-> 0]
  /\ failed = FALSE

Ran(op, r) == last' = [op |-> op, req |-> r]

Remove(q, i) == SubSeq(q, 1, i - 1) \o SubSeq(q, i + 1, Len(q))

\* JS truthiness of string | null
Truthy(s) == s # Null /\ s[1] # ""

SessionIndex(sid) == CHOOSE i \in 1..Len(SessionIds) : SessionIds[i] = sid

\* /llm/message requests for session sid the backend has not handled yet
Pending(path) == { i \in 1..Len(net) : net[i].path = path /\ net[i].resp = Null }

\* room for one more request, session or exchange within the bounds
RoomInFlight == Len(net) < MaxInFlight
RoomForSession == Len(sessions) + Cardinality(Pending("/llm/session")) < MaxSessions
RoomForMessage ==
  /\ (IF messages # Null THEN Len(messages[1]) ELSE 0) < MaxThread
  /\ Len(sessions[SessionIndex(sessionId[1])])
       + 2 * Cardinality(Pending("/llm/message")) + 2 <= MaxThread

-----------------------------------------------------------------------------
(* What the page renders.                                                  *)

\* disabled={loading || !canScan}
ScanButtonDisabled == loading \/ ~canScan

\* {!DEMO_HOSTS.has(hostFromUrl(url)) && <Attestation .../>}
AttestationVisible == hostFromUrl(url) \notin DEMO_HOSTS

\* {scan && ( ... )}
ResultsVisible == scan # Null

\* {sessionId && messages && ( ... )} inside the results section
ChatVisible == ResultsVisible /\ Truthy(sessionId) /\ messages # Null

\* disabled={sending}
SendButtonDisabled == sending

-----------------------------------------------------------------------------
(* Home: handlers.                                                         *)

\* onScan with the resets moved above the attestation check
onScanBlocked_AfterReset ==
  /\ ~canScan
  /\ err' = Some(AttestPrompt)
  /\ scan' = Null
  /\ sessionId' = Null
  /\ messages' = Null
  /\ draft' = <<>>
  /\ Ran("onScan:blocked", 0)
  /\ UNCHANGED <<url, loading, attest, sending, net, sessions, panel, failed>>

onScanBlocked ==
  /\ ~canScan
  /\ err' = Some(AttestPrompt)
  /\ Ran("onScan:blocked", 0)
  /\ UNCHANGED <<url, scan, loading, attest, sessionId, messages, draft, sending,
                 net, sessions, panel, failed>>

\* onScan that aborts whatever is outstanding before it issues its request
onScanStart_Aborting ==
  /\ canScan
  /\ RoomInFlight
  /\ loading' = TRUE
  /\ err' = Null
  /\ scan' = Null
  /\ sessionId' = Null
  /\ messages' = Null
  /\ draft' = <<>>
  /\ net' = <<Request("/scan", [url |-> url])>>
  /\ Ran("onScan", 1)
  /\ UNCHANGED <<url, attest, sending, sessions, panel, failed>>

\* onScan without setScan(null): the previous Scan stays while the next loads
onScanStart_KeepsScan ==
  /\ canScan
  /\ RoomInFlight
  /\ loading' = TRUE
  /\ err' = Null
  /\ sessionId' = Null
  /\ messages' = Null
  /\ draft' = <<>>
  /\ net' = Append(net, Request("/scan", [url |-> url]))
  /\ Ran("onScan", Len(net) + 1)
  /\ UNCHANGED <<url, scan, attest, sending, sessions, panel, failed>>

onScanStart ==
  /\ canScan
  /\ RoomInFlight
  /\ loading' = TRUE
  /\ err' = Null
  /\ scan' = Null
  /\ sessionId' = Null
  /\ messages' = Null
  /\ draft' = <<>>
  /\ net' = Append(net, Request("/scan", [url |-> url]))
  /\ Ran("onScan", Len(net) + 1)
  /\ UNCHANGED <<url, attest, sending, sessions, panel, failed>>

onScan == onScanBlocked \/ onScanStart

startAssistantNoScan ==
  /\ scan = Null
  /\ Ran("startAssistant:noop", 0)
  /\ UNCHANGED <<home, net, sessions, panel, failed>>

startAssistantRequest ==
  /\ scan # Null
  /\ RoomInFlight
  /\ RoomForSession
  /\ err' = Null
  /\ LET rq == Request("/llm/session", [scan |-> scan[1], model |-> Model])
     IN  net' = Append(net, rq)
  /\ Ran("startAssistant", Len(net) + 1)
  /\ UNCHANGED <<url, scan, loading, attest, sessionId, messages, draft, sending,
                 sessions, panel, failed>>

startAssistant == startAssistantNoScan \/ startAssistantRequest

\* the send guard without trim(): only the empty draft is refused
SendGuard_Untrimmed == Truthy(sessionId) /\ draft # <<>>

\* if (!sessionId || !draft.trim()) return;
SendGuard == Truthy(sessionId) /\ trim(draft) # <<>>

sendNoop ==
  /\ ~SendGuard
  /\ Ran("send:noop", 0)
  /\ UNCHANGED <<home, net, sessions, panel, failed>>

\* the send that posts and shows the draft as typed, untrimmed
sendRequest_Untrimmed ==
  /\ SendGuard
  /\ RoomInFlight
  /\ RoomForMessage
  /\ LET text == draft
         rq == Request("/llm/message",
                       [session_id |-> sessionId[1], user_message |-> text, model |-> Model])
     IN  /\ draft' = <<>>
         /\ messages' = Some((IF messages # Null THEN messages[1] ELSE <<>>) \o <<UserMsg(text)>>)
         /\ sending' = TRUE
         /\ net' = Append(net, rq)
  /\ Ran("send", Len(net) + 1)
  /\ UNCHANGED <<url, scan, loading, err, attest, sessionId, sessions, panel, failed>>

sendRequest ==
  /\ SendGuard
  /\ RoomInFlight
  /\ RoomForMessage
  /\ LET text == trim(draft)
         rq == Request("/llm/message",
                       [session_id |-> sessionId[1], user_message |-> text, model |-> Model])
     IN  /\ draft' = <<>>
         /\ messages' = Some((IF messages # Null THEN messages[1] ELSE <<>>) \o <<UserMsg(text)>>)
         /\ sending' = TRUE
         /\ net' = Append(net, rq)
  /\ Ran("send", Len(net) + 1)
  /\ UNCHANGED <<url, scan, loading, err, attest, sessionId, sessions, panel, failed>>

sendToAssistantInline == sendNoop \/ sendRequest

-----------------------------------------------------------------------------
(* Home: what runs after each await, when request i has been answered.     *)

Answered(i, path) ==
  /\ i \in 1..Len(net)
  /\ net[i].path = path
  /\ net[i].resp # Null

Outcome(rq) == apiPost(rq.path, rq.resp[1])

\* the request leaves the network and its continuation runs as op
Settle(i, op) == net' = Remove(net, i) /\ Ran(op, i)

\* findings put highest risk first before they are stored
HighRiskFirst(fs) ==
  SelectSeq(fs, LAMBDA f : f.risk = "high") \o SelectSeq(fs, LAMBDA f : f.risk # "high")

\* scanResolved that stores the findings re-ordered by risk
scanResolved_Reordered(i) ==
  /\ Answered(i, "/scan")
  /\ Outcome(net[i]).ok
  /\ scan' = Some([Outcome(net[i]).value EXCEPT !.findings = HighRiskFirst(@)])
  /\ loading' = FALSE
  /\ Settle(i, "scan:resolved")
  /\ UNCHANGED <<url, err, attest, sessionId, messages, draft, sending, sessions,
                 panel, failed>>

\* setScan(result); finally setLoading(false)
scanResolved(i) ==
  /\ Answered(i, "/scan")
  /\ Outcome(net[i]).ok
  /\ scan' = Some(Outcome(net[i]).value)
  /\ loading' = FALSE
  /\ Settle(i, "scan:resolved")
  /\ UNCHANGED <<url, err, attest, sessionId, messages, draft, sending, sessions,
                 panel, failed>>

\* scanRejected without the finally block: loading stays set
scanRejected_StillLoading(i) ==
  /\ Answered(i, "/scan")
  /\ ~Outcome(net[i]).ok
  /\ err' = Some(MessageOr(Outcome(net[i]).error, <<"Scan failed">>))
  /\ Settle(i, "scan:rejected")
  /\ UNCHANGED <<url, scan, loading, attest, sessionId, messages, draft, sending,
                 sessions, panel, failed>>

\* setErr(e?.message ?? "Scan failed"); finally setLoading(false)
scanRejected(i) ==
  /\ Answered(i, "/scan")
  /\ ~Outcome(net[i]).ok
  /\ err' = Some(MessageOr(Outcome(net[i]).error, <<"Scan failed">>))
  /\ loading' = FALSE
  /\ Settle(i, "scan:rejected")
  /\ UNCHANGED <<url, scan, attest, sessionId, messages, draft, sending, sessions,
                 panel, failed>>

\* setSessionId(boot.session_id); setMessages(boot.messages)
sessionResolved(i) ==
  /\ Answered(i, "/llm/session")
  /\ Outcome(net[i]).ok
  /\ sessionId' = Some(Outcome(net[i]).value.session_id)
  /\ messages' = Some(Outcome(net[i]).value.messages)
  /\ Settle(i, "session:resolved")
  /\ UNCHANGED <<url, scan, loading, err, attest, draft, sending, sessions, panel, failed>>

\* a failed start that also drops the session on the page
sessionRejected_DropsSession(i) ==
  /\ Answered(i, "/llm/session")
  /\ ~Outcome(net[i]).ok
  /\ err' = Some(MessageOr(Outcome(net[i]).error, <<"Assistant failed to start">>))
  /\ sessionId' = Null
  /\ messages' = Null
  /\ Settle(i, "session:rejected")
  /\ UNCHANGED <<url, scan, loading, attest, draft, sending, sessions, panel, failed>>

\* setErr(e?.message ?? "Assistant failed to start")
sessionRejected(i) ==
  /\ Answered(i, "/llm/session")
  /\ ~Outcome(net[i]).ok
  /\ err' = Some(MessageOr(Outcome(net[i]).error, <<"Assistant failed to start">>))
  /\ Settle(i, "session:rejected")
  /\ UNCHANGED <<url, scan, loading, attest, sessionId, messages, draft, sending,
                 sessions, panel, failed>>

\* messageResolved that appends the reply to the local transcript instead of
\* replacing the transcript with the response's
messageResolved_Merged(i) ==
  /\ Answered(i, "/llm/message")
  /\ Outcome(net[i]).ok
  /\ LET mine == IF messages = Null THEN <<>> ELSE messages[1]
         theirs == Outcome(net[i]).value.messages
     IN  messages' = Some(Append(mine, theirs[Len(theirs)]))
  /\ sending' = FALSE
  /\ Settle(i, "message:resolved")
  /\ UNCHANGED <<url, scan, loading, err, attest, sessionId, draft, sessions, panel, failed>>

\* setMessages(resp.messages); finally setSending(false)
messageResolved(i) ==
  /\ Answered(i, "/llm/message")
  /\ Outcome(net[i]).ok
  /\ messages' = Some(Outcome(net[i]).value.messages)
  /\ sending' = FALSE
  /\ Settle(i, "message:resolved")
  /\ UNCHANGED <<url, scan, loading, err, attest, sessionId, draft, sessions, panel, failed>>

\* setErr(e?.message ?? "Assistant error"); finally setSending(false)
messageRejected(i) ==
  /\ Answered(i, "/llm/message")
  /\ ~Outcome(net[i]).ok
  /\ err' = Some(MessageOr(Outcome(net[i]).error, <<"Assistant error">>))
  /\ sending' = FALSE
  /\ failed' = TRUE
  /\ Settle(i, "message:rejected")
  /\ UNCHANGED <<url, scan, loading, attest, sessionId, messages, draft, sessions, panel>>

-----------------------------------------------------------------------------
(* The backend and the network, as the front end's contract describes them.*)

Answer(i, resp) == net' = [net EXCEPT ![i].resp = Some(resp)]

Sent(i, path) ==
  /\ i \in 1..Len(net)
  /\ net[i].path = path
  /\ net[i].resp = Null

\* POST /scan {url} -> Scan
ServerScan(i) ==
  /\ Sent(i, "/scan")
  /\ Answer(i, HttpResponse(200, ScanResult(net[i].body.url)))
  /\ Ran("backend", 0)
  /\ UNCHANGED <<home, sessions, panel, failed>>

\* POST /llm/session {scan, model} -> {session_id, messages, first}
ServerSession(i) ==
  /\ Sent(i, "/llm/session")
  /\ sessions' = Append(sessions, InitialTranscript)
  /\ Answer(i, HttpResponse(200, [session_id |-> SessionIds[Len(sessions) + 1],
                                  messages |-> InitialTranscript,
                                  first |-> InitialTranscript[2].content]))
  /\ Ran("backend", 0)
  /\ UNCHANGED <<home, panel, failed>>

Reply(text) == [role |-> "assistant", content |-> <<"re: ">> \o text]

\* POST /llm/message {session_id, user_message, model} -> {reply, messages}
ServerMessage(i) ==
  /\ Sent(i, "/llm/message")
  /\ LET k == SessionIndex(net[i].body.session_id)
         text == net[i].body.user_message
         thread == sessions[k] \o <<UserMsg(text), Reply(text)>>
     IN  /\ sessions' = [sessions EXCEPT ![k] = thread]
         /\ Answer(i, HttpResponse(200, [reply |-> Reply(text).content, messages |-> thread]))
  /\ Ran("backend", 0)
  /\ UNCHANGED <<home, panel, failed>>

\* the statuses an endpoint answers with when it fails, having done nothing
FailStatuses == {500}

ServerError(i) ==
  /\ i \in 1..Len(net)
  /\ net[i].resp = Null
  /\ \E st \in FailStatuses : Answer(i, HttpResponse(st, Null))
  /\ Ran("backend", 0)
  /\ UNCHANGED <<home, sessions, panel, failed>>

\* fetch itself rejects: the answer of the backend is lost on its way
NetworkError(i) ==
  /\ i \in 1..Len(net)
  /\ net[i].resp # Null
  /\ ResOk(net[i].resp[1])
  /\ Answer(i, NetworkFailure)
  /\ Ran("backend", 0)
  /\ UNCHANGED <<home, sessions, panel, failed>>

-----------------------------------------------------------------------------
(* Home: user events, each enabled as the rendered control allows.         *)

\* onChange={(e) => setUrl(e.target.value)}, then the [url] effect clears err
ChangeUrl(u) ==
  /\ u # url
  /\ url' = u
  /\ err' = Null
  /\ Ran("edit", 0)
  /\ UNCHANGED <<scan, loading, attest, sessionId, messages, draft, sending,
                 net, sessions, panel, failed>>

\* onChange={(e) => setChecked(e.target.checked)}
ToggleAttest ==
  /\ AttestationVisible
  /\ attest' = ~attest
  /\ Ran("edit", 0)
  /\ UNCHANGED <<url, scan, loading, err, sessionId, messages, draft, sending,
                 net, sessions, panel, failed>>

ClickScan == ~ScanButtonDisabled /\ onScan

ClickStartAssistant == ResultsVisible /\ startAssistant

\* onChange={(e) => setDraft(e.target.value)}
ChangeDraft(t) ==
  /\ ChatVisible
  /\ t # draft
  /\ draft' = t
  /\ Ran("edit", 0)
  /\ UNCHANGED <<url, scan, loading, err, attest, sessionId, messages, sending,
                 net, sessions, panel, failed>>

\* onKeyDown Enter: not held back by the sending flag
PressEnter == ChatVisible /\ sendToAssistantInline

ClickSend == ChatVisible /\ ~SendButtonDisabled /\ sendToAssistantInline

-----------------------------------------------------------------------------
(* ChatPanel: a component of its own, which Home does not mount.           *)

\* onChange={(e) => setText(e.target.value)}
PanelChangeText(t) ==
  /\ t # panel.text
  /\ panel' = [panel EXCEPT !.text = t]
  /\ Ran("panel:edit", 0)
  /\ UNCHANGED <<home, net, sessions, failed>>

\* if (!text.trim()) return;
handleSendBlank ==
  /\ trim(panel.text) = <<>>
  /\ Ran("handleSend:noop", 0)
  /\ UNCHANGED <<home, net, sessions, panel, failed>>

\* setText(""); setMessages((m) => [...m, {role: "user", content: msg}]); await onSend(msg)
handleSendMessage ==
  /\ trim(panel.text) # <<>>
  /\ Len(panel.messages) < MaxPanel
  /\ LET msg == trim(panel.text)
     IN  panel' = [text |-> <<>>,
                   messages |-> Append(panel.messages, UserMsg(msg)),
                   sent |-> Append(panel.sent, msg)]
  /\ Ran("handleSend", 0)
  /\ UNCHANGED <<home, net, sessions, failed>>

handleSend == handleSendBlank \/ handleSendMessage

-----------------------------------------------------------------------------
(* Presentational components, as functions of their props.                 *)

\* the badge with the INFO entry left out of classes
StatusBadge_NoInfo(status) ==
  CASE status = "PASS" -> "bg-green-100 text-green-800"
    [] status = "WARN" -> "bg-yellow-100 text-yellow-800"
    [] status = "FAIL" -> "bg-red-100 text-red-800"
    [] OTHER -> "undefined"

\* classes[status]
StatusBadge(status) ==
  CASE status = "PASS" -> "bg-green-100 text-green-800"
    [] status = "WARN" -> "bg-yellow-100 text-yellow-800"
    [] status = "FAIL" -> "bg-red-100 text-red-800"
    [] status = "INFO" -> "bg-blue-100 text-blue-800"

FindingCard(f) ==
  [title |-> f.title, badge |-> [class |-> StatusBadge(f.status), text |-> f.status],
   risk |-> f.risk, confidence |-> f.confidence,
   evidence |-> f.evidence, recommendation |-> f.recommendation]

\* scan.findings.map((f) => <FindingCard key={f.id} f={f} />)
FindingCards(sc) == [k \in 1..Len(sc.findings) |-> FindingCard(sc.findings[k])]

\* the results section for a value of scan: nothing while it is null
ResultsSectionOf(sc) ==
  IF sc = Null
    THEN Null
    ELSE Some([score |-> sc[1].score, url |-> sc[1].url, cards |-> FindingCards(sc[1])])

ResultsSection == ResultsSectionOf(scan)

-----------------------------------------------------------------------------
(* Specifications.                                                         *)

Environment ==
  \E i \in 1..MaxInFlight + 1 :
    \/ ServerScan(i)
    \/ ServerSession(i)
    \/ ServerMessage(i)
    \/ ServerError(i)
    \/ NetworkError(i)

Callbacks ==
  \E i \in 1..MaxInFlight + 1 :
    \/ scanResolved(i)
    \/ scanRejected(i)
    \/ sessionResolved(i)
    \/ sessionRejected(i)
    \/ messageResolved(i)
    \/ messageRejected(i)

Next ==
  \/ \E u \in UrlTexts : ChangeUrl(u)
  \/ ToggleAttest
  \/ ClickScan
  \/ ClickStartAssistant
  \/ \E t \in DraftTexts : ChangeDraft(t)
  \/ PressEnter
  \/ ClickSend
  \/ Environment
  \/ Callbacks

\* the page as a user drives it
Spec == Init /\ [][Next]_vars

\* the URL box and the attestation checkbox alone, over many URL texts
GateNext ==
  \/ \E u \in GateUrlTexts : ChangeUrl(u)
  \/ ToggleAttest

SpecGate == Init /\ [][GateNext]_vars

\* the handlers called whatever the page shows or disables, against a backend
\* that answers every request, and ChatPanel driven on its own (the page and
\* the panel share no state, so one is driven at a time)
PanelIdle == panel = [messages |-> <<>>, text |-> <<>>, sent |-> <<>>]
HomeIdle == net = <<>> /\ scan = Null /\ err = Null /\ url = InitialUrl /\ ~attest

HandlersNext ==
  \/ PanelIdle /\ \E u \in UrlTexts : ChangeUrl(u)
  \/ PanelIdle /\ ToggleAttest
  \/ PanelIdle /\ \E t \in DraftTexts : ChangeDraft(t)
  \/ PanelIdle /\ onScan
  \/ PanelIdle /\ startAssistant
  \/ PanelIdle /\ sendToAssistantInline
  \/ PanelIdle /\ \E i \in 1..MaxInFlight + 1 : ServerScan(i)
  \/ PanelIdle /\ \E i \in 1..MaxInFlight + 1 : ServerSession(i)
  \/ PanelIdle /\ \E i \in 1..MaxInFlight + 1 : ServerMessage(i)
  \/ PanelIdle /\ \E i \in 1..MaxInFlight + 1 : scanResolved(i)
  \/ PanelIdle /\ \E i \in 1..MaxInFlight + 1 : sessionResolved(i)
  \/ PanelIdle /\ \E i \in 1..MaxInFlight + 1 : messageResolved(i)
  \/ HomeIdle /\ \E t \in PanelTexts : PanelChangeText(t)
  \/ HomeIdle /\ handleSend

SpecHandlers == Init /\ [][HandlersNext]_vars

\* the HTTP helpers called on their own, against a server that may answer
\* anything or not at all
ApiMethods == {"GET", "POST"}
ApiPaths == {"/scan", "/health"}
ApiStatuses == {200, 299, 300, 500}
ApiResponses ==
  { HttpResponse(st, [detail |-> "body"]) : st \in ApiStatuses }
    \cup { HttpTextResponse(200), NetworkFailure }

\* fetch(`${API_BASE}${path}`, {method, body, cache: "no-store"})
Fetch(method, path) ==
  [method |-> method, path |-> path,
   body |-> IF method = "POST" THEN Some([url |-> InitialUrl]) ELSE Null,
   resp |-> Null]

\* apiGet(path) or apiPost(path, body) up to its await fetch
ApiCall(method, path) ==
  /\ RoomInFlight
  /\ net' = Append(net, Fetch(method, path))
  /\ Ran("api:call", Len(net) + 1)
  /\ UNCHANGED <<home, sessions, panel, failed>>

\* the fetch promise settles
FetchSettles(i, resp) ==
  /\ i \in 1..Len(net)
  /\ net[i].resp = Null
  /\ Answer(i, resp)
  /\ Ran("backend", 0)
  /\ UNCHANGED <<home, sessions, panel, failed>>

\* the rest of apiGet or apiPost: throw on !res.ok, else return res.json()
ApiSettles(i) ==
  /\ i \in 1..Len(net)
  /\ net[i].resp # Null
  /\ LET outcome == IF net[i].method = "GET"
                      THEN apiGet(net[i].path, net[i].resp[1])
                      ELSE apiPost(net[i].path, net[i].resp[1])
     IN  Ran("api:settled", [call |-> net[i], outcome |-> outcome])
  /\ net' = Remove(net, i)
  /\ UNCHANGED <<home, sessions, panel, failed>>

ApiNext ==
  \/ \E m \in ApiMethods, p \in ApiPaths : ApiCall(m, p)
  \/ \E i \in 1..MaxInFlight + 1, r \in ApiResponses : FetchSettles(i, r)
  \/ \E i \in 1..MaxInFlight + 1 : ApiSettles(i)

SpecApi == Init /\ [][ApiNext]_vars

\* the results section rendered for any Scan of up to MaxFindings findings
Status == {"PASS", "WARN", "FAIL", "INFO"}

FindingsOf == { [F1 EXCEPT !.status = st] : st \in Status }

CardScans ==
  { [id |-> "scan-c", url |-> InitialUrl, score |-> 50, findings |-> fs] :
      fs \in UNION { [1..n -> FindingsOf] : n \in 0..MaxFindings } }

InitCards ==
  /\ url = InitialUrl
  /\ scan \in { Some(sc) : sc \in CardScans }
  /\ loading = FALSE
  /\ err = Null
  /\ attest = FALSE
  /\ sessionId = Null
  /\ messages = Null
  /\ draft = <<>>
  /\ sending = FALSE
  /\ net = <<>>
  /\ sessions = <<>>
  /\ panel = [messages |-> <<>>, text |-> <<>>, sent |-> <<>>]
  /\ last = [op |-> "init", req |-> 0]
  /\ failed = FALSE

\* the page renders: last.req is what the results section shows
RenderResults ==
  /\ last.op = "init"
  /\ Ran("render", ResultsSection)
  /\ UNCHANGED <<home, net, sessions, panel, failed>>

SpecCards == InitCards /\ [][RenderResults]_vars

-----------------------------------------------------------------------------
(* Claims.                                                                 *)

MySiteUrl == Https \o SlashSlash \o MySiteIo

IsBlank(t) == \A k \in 1..Len(t) : t[k] = Space

Issued(path) == Len(net') = Len(net) + 1 /\ net'[Len(net')].path = path

\* The host the URL standard gives the text put together from parts p (<<>> when
\* the text is no URL or the URL has no host), lower-cased.
ExpectedHost(p) ==
  LET special == p.scheme \in {Https, <<"H","T","T","P",":">>}
      dflt == IF p.scheme = Https THEN <<":","4","4","3">> ELSE <<":","8","0">>
      port == IF special /\ p.port = dflt THEN <<>> ELSE p.port
  IN  IF p.scheme = <<>> THEN <<>>
      ELSE IF special
        THEN IF p.host # <<>> THEN toLowerCase(p.host) \o port
             ELSE IF p.port = <<>> /\ p.path # <<>> THEN <<"x">>
             ELSE <<>>
      ELSE IF p.slashes = <<>> \/ p.host = <<>> THEN <<>>
      ELSE toLowerCase(p.host) \o p.port

\* C1: canScan holds for an allow-listed (lower-cased) host whatever the flag,
\* and for every other text, unparseable ones included, exactly when the
\* attestation flag is checked.
C1_CanScanGate ==
  \A p \in UrlParts :
    url = Compose(p) =>
      (canScan <=> (ExpectedHost(p) \in {ExampleCom, WwwExampleCom} \/ attest))

\* an allow-listed host in upper case under a scheme that keeps the case, flag unchecked
C1_Witness ==
  /\ url = <<"f","o","o",":">> \o SlashSlash
             \o <<"W","W","W",".","E","x","a","m","p","l","e",".","C","O","M">>
  /\ ~attest
  /\ canScan
  /\ last.op = "edit"

\* C2: a POST /scan request is issued only by the scan handler, and only in a
\* state where the host of the current URL is allow-listed or the flag is set.
C2_ScanOnlyWhenAttested ==
  [][ Issued("/scan") =>
        /\ last'.op = "onScan"
        /\ net'[Len(net')].body.url = url
        /\ (url = InitialUrl \/ attest) ]_vars

\* a scan of the other site, issued with the flag checked
C2_Witness ==
  /\ last.op = "onScan"
  /\ url = MySiteUrl
  /\ attest
  /\ net # <<>> /\ net[Len(net)] = Request("/scan", [url |-> MySiteUrl])

\* C3: whenever a scan request completes successfully the page holds the returned
\* Scan and no chat session remains (sessionId and transcript both null).
C3_ScanSuccessLeavesNoSession ==
  last.op = "scan:resolved" => (scan # Null /\ sessionId = Null /\ messages = Null)

\* C4: when a /llm/message request succeeds, the transcript right after the
\* response is handled is exactly the messages array of the response.
C4_TranscriptReplaced ==
  [][ last'.op = "message:resolved" =>
        messages' = Some(net[last'.req].resp[1].json.messages) ]_vars

\* a response handled while a later send's optimistic entry was on the page:
\* the transcript is the response's, shorter than what the backend holds by now
C4_Witness ==
  /\ last.op = "message:resolved"
  /\ messages # Null
  /\ Len(messages[1]) = 4
  /\ messages[1][4].role = "assistant"
  /\ Len(sessions[1]) = 6

\* C5: with a session on the page, no /llm/message request in flight and none
\* failed, the page's transcript is the backend's transcript of that session.
C5_EventuallyConsistent ==
  ( /\ Truthy(sessionId)
    /\ messages # Null
    /\ ~failed
    /\ \A k \in 1..Len(net) : net[k].path # "/llm/message" )
  => messages[1] = sessions[SessionIndex(sessionId[1])]

\* C6: after a failed /llm/message request is handled, the optimistic entry of
\* that send is still in the transcript.
C6_OptimisticEntryRemains ==
  [][ last'.op = "message:rejected" =>
        /\ messages' # Null
        /\ \E k \in 1..Len(messages'[1]) :
             messages'[1][k] = UserMsg(net[last'.req].body.user_message) ]_vars

\* what the catch and finally blocks do by themselves: the transcript is left
\* as it was just before, the error is the thrown message, the sending flag is
\* reset and no request is issued.
FailureLeavesTranscript ==
  [][ last'.op = "message:rejected" =>
        /\ messages' = messages
        /\ err' \in { Some(<<"POST ", "/llm/message", " failed: ", "500">>),
                      Some(<<"Failed to fetch">>) }
        /\ sending' = FALSE
        /\ net' = Remove(net, last'.req) ]_vars

\* the failure handled with the optimistic entry on the page
FailureHandled ==
  /\ last.op = "message:rejected"
  /\ err = Some(<<"POST ", "/llm/message", " failed: ", "500">>)
  /\ ~sending
  /\ messages # Null
  /\ messages[1][Len(messages[1])] = UserMsg(<<"a">>)

\* C7: a chat send with blank text, or with no session, issues no request and
\* leaves transcript, draft, sending flag and error alone; ChatPanel's send
\* with blank text calls onSend not at all and leaves the panel alone.
C7_BlankSendIsNoop ==
  [][ /\ (last'.op \in {"send", "send:noop"} /\ (sessionId = Null \/ IsBlank(draft)))
         => UNCHANGED <<messages, draft, sending, err, net>>
      /\ (last'.op \in {"handleSend", "handleSend:noop"} /\ IsBlank(panel.text))
         => panel' = panel ]_vars

\* a blank draft sent in a live session
C7_Witness ==
  /\ last.op = "send:noop"
  /\ Truthy(sessionId)
  /\ draft = <<Space>>
  /\ messages = Some(InitialTranscript)
  /\ net = <<>>

\* C8: a failed /scan request ends in the failed state (error set to the thrown
\* message, loading false, no Scan held, nothing re-issued), and a /scan
\* request is only ever issued by the scan handler.
C8_ScanFailure ==
  [][ /\ last'.op = "scan:rejected" =>
           /\ err' \in { Some(<<"POST ", "/scan", " failed: ", "500">>),
                         Some(<<"Failed to fetch">>) }
           /\ loading' = FALSE
           /\ scan' = Null
           /\ net' = Remove(net, last'.req)
           /\ \A k \in 1..Len(net') : net'[k].path # "/scan"
      /\ Issued("/scan") => last'.op = "onScan" ]_vars

C8_Witness ==
  /\ last.op = "scan:rejected"
  /\ err = Some(<<"POST ", "/scan", " failed: ", "500">>)
  /\ ~loading
  /\ scan = Null
  /\ net = <<>>

C10_ScanMirrorsResponse ==
  [][ last'.op = "scan:resolved" =>
        LET body == net[last'.req].resp[1].json
            shown == ResultsSectionOf(scan')[1]
        IN  /\ scan' = Some(body)
            /\ shown.score = body.score
            /\ shown.url = body.url
            /\ Len(shown.cards) = Len(body.findings)
            /\ \A k \in 1..Len(body.findings) :
                 /\ shown.cards[k].title = body.findings[k].title
                 /\ shown.cards[k].badge.text = body.findings[k].status ]_vars

\* the example of the specification: score 72, no findings, no cards
C10_Witness ==
  /\ last.op = "scan:resolved"
  /\ scan # Null
  /\ scan[1].score = 72
  /\ scan[1].findings = <<>>
  /\ ResultsSection[1].score = 72
  /\ ResultsSection[1].cards = <<>>

InFlight(path) == { k \in 1..Len(net) : net[k].path = path }

\* C11: at most one /scan request and at most one /llm/message request is in
\* flight in any reachable state.
C11_OneInFlight ==
  /\ Cardinality(InFlight("/scan")) <= 1
  /\ Cardinality(InFlight("/llm/message")) <= 1

\* the half of it that holds: one /scan request at a time
OneScanInFlight == Cardinality(InFlight("/scan")) <= 1

ContinuationOps ==
  {"scan:resolved", "scan:rejected", "session:resolved", "session:rejected",
   "message:resolved", "message:rejected"}

\* C12: a request leaves the network only through its own continuation; a scan
\* started over outstanding requests leaves them all in flight; and the
\* continuation of a /llm/message or /llm/session request that runs after the
\* scan start cleared the session still writes the page state.
C12_NeverCancelled ==
  [][ /\ net' # net =>
           \/ Len(net') = Len(net) + 1 /\ SubSeq(net', 1, Len(net)) = net
           \/ Len(net') = Len(net)
              /\ \A k \in 1..Len(net) : [net'[k] EXCEPT !.resp = Null] = [net[k] EXCEPT !.resp = Null]
           \/ last'.op \in ContinuationOps /\ net' = Remove(net, last'.req)
      /\ (last'.op = "message:resolved" /\ sessionId = Null) =>
           messages' = Some(net[last'.req].resp[1].json.messages)
      /\ (last'.op = "session:resolved" /\ loading) =>
           sessionId' = Some(net[last'.req].resp[1].json.session_id) ]_vars

\* a chat response handled while the next scan is still in flight: the session
\* is gone, the transcript is back
C12_Witness ==
  /\ last.op = "message:resolved"
  /\ loading
  /\ sessionId = Null
  /\ messages # Null
  /\ Cardinality(InFlight("/scan")) = 1

\* C13: with no request in flight the loading and sending flags are false, so
\* the Scan button is enabled whenever canScan holds and the chat box with an
\* enabled Send button is there whenever a session exists.
C13_StaysInteractive ==
  net = <<>> =>
    /\ ~loading
    /\ ~sending
    /\ ((hostFromUrl(url) \in DEMO_HOSTS \/ attest) => ~ScanButtonDisabled)
    /\ (sessionId # Null => ChatVisible /\ ~SendButtonDisabled)

\* the part of it that rests on the flags alone: with no request in flight both
\* flags are false, the Scan button follows canScan and the Send button is enabled
FlagsClearWhenIdle ==
  net = <<>> =>
    /\ ~loading
    /\ ~sending
    /\ ((hostFromUrl(url) \in DEMO_HOSTS \/ attest) => ~ScanButtonDisabled)
    /\ ~SendButtonDisabled

\* C16: a /llm/session request is issued only by startAssistant with a Scan
\* held, and carries that Scan; its success sets sessionId and transcript to the
\* response's, its failure leaves both and sets an error; the held Scan and the
\* loading flag change in neither case.
C16_StartAssistant ==
  [][ /\ Issued("/llm/session") =>
           /\ last'.op = "startAssistant"
           /\ scan # Null
           /\ net'[Len(net')].body.scan = scan[1]
      /\ last'.op = "session:resolved" =>
           /\ sessionId' = Some(net[last'.req].resp[1].json.session_id)
           /\ messages' = Some(net[last'.req].resp[1].json.messages)
           /\ UNCHANGED <<scan, loading>>
      /\ last'.op = "session:rejected" =>
           /\ UNCHANGED <<sessionId, messages, scan, loading>>
           /\ err' \in { Some(<<"POST ", "/llm/session", " failed: ", "500">>),
                         Some(<<"Failed to fetch">>) } ]_vars

\* a second start failed over a live session, which stays on the page
C16_Witness ==
  /\ last.op = "session:rejected"
  /\ err = Some(<<"POST ", "/llm/session", " failed: ", "500">>)
  /\ sessionId = Some("sess-1")
  /\ messages = Some(InitialTranscript)
  /\ scan # Null

\* t is d without its leading and trailing white space
IsTrimOf(t, d) ==
  /\ t # <<>>
  /\ t[1] # Space
  /\ t[Len(t)] # Space
  /\ \E a, b \in 0..Len(d) :
       /\ a + Len(t) + b = Len(d)
       /\ \A k \in 1..Len(d) :
            IF k <= a \/ k > a + Len(t) THEN d[k] = Space ELSE d[k] = t[k - a]

\* C17: a send with non-blank text in a session appends exactly one user entry
\* with the trimmed text to the transcript, clears the draft, sets the sending
\* flag and issues exactly one /llm/message request with the session id of
\* that moment and the trimmed text.
C17_OptimisticSend ==
  [][ last'.op = "send" =>
        /\ sessionId # Null
        /\ messages # Null
        /\ draft' = <<>>
        /\ sending' = TRUE
        /\ Len(messages'[1]) = Len(messages[1]) + 1
        /\ SubSeq(messages'[1], 1, Len(messages[1])) = messages[1]
        /\ LET entry == messages'[1][Len(messages'[1])]
               rq == net'[Len(net')]
           IN  /\ entry.role = "user"
               /\ IsTrimOf(entry.content, draft)
               /\ Len(net') = Len(net) + 1
               /\ SubSeq(net', 1, Len(net)) = net
               /\ rq.path = "/llm/message"
               /\ rq.resp = Null
               /\ rq.body.session_id = sessionId[1]
               /\ rq.body.user_message = entry.content ]_vars

\* the padded draft sent: "a" on the page and in the request, nothing handled yet
C17_Witness ==
  /\ last.op = "send"
  /\ draft = <<>>
  /\ sending
  /\ messages = Some(Append(InitialTranscript, [role |-> "user", content |-> <<"a">>]))
  /\ Len(net) = 1
  /\ net[1].body.user_message = <<"a">>
  /\ net[1].body.session_id = "sess-1"

\* C18: the held Scan changes only when a scan starts (to null) or a scan
\* response succeeds (to the returned Scan), and no Scan is held while loading.
C18_ScanOnlyByScanFlow ==
  [][ /\ scan' # scan =>
           \/ last'.op = "onScan" /\ scan' = Null
           \/ last'.op = "scan:resolved" /\ scan' = Some(net[last'.req].resp[1].json)
      /\ last'.op \in {"startAssistant", "send", "session:resolved", "session:rejected",
                       "message:resolved", "message:rejected", "edit"} => scan' = scan
      /\ loading' => scan' = Null ]_vars

\* a new scan started from a page that had a result and a session
C18_Witness ==
  /\ last.op = "onScan"
  /\ loading
  /\ scan = Null
  /\ sessions # <<>>
  /\ Cardinality(InFlight("/llm/message")) = 1

StatusText(st) == CASE st = 300 -> "300" [] st = 500 -> "500"

C15_BadgeClasses ==
  last.op = "render" =>
    LET cards == last.req[1].cards
    IN  \A j \in 1..Len(cards) :
          /\ cards[j].badge.class \notin {"", "undefined"}
          /\ \A k \in 1..Len(cards) :
               cards[j].badge.text # cards[k].badge.text
                 => cards[j].badge.class # cards[k].badge.class

\* a page with a badge of each of the four Status values
C15_Witness ==
  /\ last.op = "render"
  /\ { last.req[1].cards[k].badge.text : k \in 1..Len(last.req[1].cards) } = Status

====
